---- MODULE Spec2Model ----
(***************************************************************************)
(* A model of src/src/App.tsx: the CPF / CNPJ verifier-digit calculators,  *)
(* the two generate handlers with their formatting, and the clipboard copy *)
(* handler with its timed reset of the "copied" flags.                     *)
(*                                                                         *)
(* Strings are sequences of one-character strings ("" is << >>), so that   *)
(* joining, the regular-expression replace and the stripping of the        *)
(* punctuation are computed and not assumed.  A JavaScript number is an    *)
(* integer, or NaN.                                                        *)
(***************************************************************************)
EXTENDS Integers, Sequences, FiniteSets, TLC

VARIABLES
    cpf,          \* useState "" (line 36): the CPF shown
    cnpj,         \* useState "" (line 37): the CNPJ shown
    copiedCpf,    \* useState false (line 38)
    copiedCnpj,   \* useState false (line 39)
    timers,       \* the pending setTimeout callbacks (lines 99, 102), oldest first
    copies,       \* history: how many copies have confirmed so far (numbers them)
    shown,        \* history: per kind, the latest copy that confirmed and its outcome
    event,        \* history: the handler or callback that ran last
    input,        \* the argument under study: [fn |-> "cpf" | "cnpj", digits |-> ...]
    pc,           \* where the calls on the argument under study stand
    weights,      \* per calculator, the `weights` array of its latest call
    result,       \* the verifier digit the latest calculator call returned
    first,        \* the verifier digit the first call on `input` returned
    between       \* the arguments of the calls made after that first call

appVars  == <<cpf, cnpj, copiedCpf, copiedCnpj, timers, copies, shown, event>>
calcVars == <<input, pc, weights, result, first, between>>
vars     == <<cpf, cnpj, copiedCpf, copiedCnpj, timers, copies, shown, event,
              input, pc, weights, result, first, between>>

----------------------------------------------------------------------------
(* Bounds of the model.                                                    *)

\* The width of the window of freely chosen digits in a generated input.
FreeLen == 2

\* The number of copies that may confirm in one behaviour.
MaxCopies == 3

\* The number of calculator calls made between two calls on the same argument.
MaxBetween == 2

----------------------------------------------------------------------------
(* JavaScript numbers and strings.                                         *)

\* The one non-integer number the code can produce: digit * undefined, when
\* reduce reads past the end of `weights` (line 27).  Every integer the code
\* computes is >= 0, so -1 stands for NaN.
NaN == -1

JsAdd(a, b) == IF a = NaN \/ b = NaN THEN NaN ELSE a + b
JsMul(a, b) == IF a = NaN \/ b = NaN THEN NaN ELSE a * b
JsSub(a, b) == IF a = NaN \/ b = NaN THEN NaN ELSE a - b
JsMod(a, b) == IF a = NaN \/ b = NaN THEN NaN ELSE a % b
\* a < b is false when either side is NaN
JsLess(a, b) == a # NaN /\ b # NaN /\ a < b

\* weights[i] for a 0-based i: undefined past the end, and digit * undefined is NaN
WeightAt(ws, i) == IF i + 1 \in DOMAIN ws THEN ws[i + 1] ELSE NaN

Digits == 0..9

DigitChars == <<"0", "1", "2", "3", "4", "5", "6", "7", "8", "9">>

\* \d of the two regular expressions
IsDigitChar(c) == \E d \in Digits : DigitChars[d + 1] = c

\* String(n) as Array.prototype.join applies it to each element
RECURSIVE NumToChars(_)
NumToChars(n) ==
    IF n = NaN THEN <<"N", "a", "N">>
    ELSE IF n < 10 THEN <<DigitChars[n + 1]>>
    ELSE NumToChars(n \div 10) \o <<DigitChars[(n % 10) + 1]>>

\* numbers.join("")
RECURSIVE Join(_)
Join(nums) ==
    IF nums = << >> THEN << >>
    ELSE NumToChars(Head(nums)) \o Join(Tail(nums))

----------------------------------------------------------------------------
(* randomDigits (lines 6-8): each digit is Math.floor(Math.random() * 10).  *)

\* The sequence of length n that is f everywhere but in the window that starts
\* after position o, which holds the digits win.
Window(n, o, f, win) ==
    [i \in 1..n |-> IF i \in (o + 1)..(o + Len(win)) THEN win[i - o] ELSE f]

CpfSamples ==
    { <<0, 0, 0, 0, 0, 0, 0, 0, 0>>,
      <<1, 1, 1, 4, 4, 4, 4, 7, 7>>,
      <<4, 4, 4, 4, 4, 4, 4, 4, 1>> }

CnpjSamples ==
    { <<0, 0, 0, 0, 0, 0, 0, 0, 0, 0, 0, 0>>,
      <<1, 1, 2, 2, 2, 3, 3, 3, 0, 0, 0, 1>>,
      <<2, 2, 2, 2, 2, 2, 2, 2, 2, 2, 2, 5>> }

\* The samples of length n.
Samples(n) == IF n = 9 THEN CpfSamples ELSE IF n = 12 THEN CnpjSamples ELSE {}

----------------------------------------------------------------------------
(* calculateCpfVerifier (lines 11-19).                                     *)

\* A variant that counts the weights down from digits.length.
CpfWeightsOffByOne(digits) == [k \in 1..Len(digits) |-> Len(digits) - (k - 1)]

\* Array.from({length: digits.length}, (_, i) => digits.length + 1 - i), i from 0
CpfWeights(digits) == [k \in 1..Len(digits) |-> Len(digits) + 1 - (k - 1)]

\* digits.reduce((acc, digit, i) => acc + digit * weights[i], 0), from index i on
RECURSIVE Reduce(_, _, _, _)
Reduce(digits, ws, i, acc) ==
    IF i >= Len(digits) THEN acc
    ELSE Reduce(digits, ws, i + 1, JsAdd(acc, JsMul(digits[i + 1], WeightAt(ws, i))))

WeightedSum(digits, ws) == Reduce(digits, ws, 0, 0)

\* A variant that leaves out the factor 10.
CpfRemainderUnscaled(sum) == JsMod(sum, 11)

\* (sum * 10) % 11
CpfRemainder(sum) == JsMod(JsMul(sum, 10), 11)

\* A variant that does not fold the remainder 10 to 0.
CpfResultUnfolded(remainder) == remainder

\* remainder === 10 ? 0 : remainder
CpfResult(remainder) == IF remainder = 10 THEN 0 ELSE remainder

calculateCpfVerifier(digits) ==
    CpfResult(CpfRemainder(WeightedSum(digits, CpfWeights(digits))))

----------------------------------------------------------------------------
(* calculateCnpjVerifier (lines 22-30).                                    *)

\* A variant with the array hoisted out of the function: every call works on
\* the one array, as its predecessors left it.
HoistedCnpjWeights(held) ==
    IF held = << >> THEN <<5, 4, 3, 2, 9, 8, 7, 6, 5, 4, 3, 2>> ELSE held

\* const weights = [5, 4, 3, 2, 9, 8, 7, 6, 5, 4, 3, 2]: the literal builds a new
\* array on every call, whatever array an earlier call (held) left behind.
NewCnpjWeights(held) == <<5, 4, 3, 2, 9, 8, 7, 6, 5, 4, 3, 2>>

\* A variant that never prepends the weight 6.
CnpjWeightsNoUnshift(digits, held) == <<5, 4, 3, 2, 9, 8, 7, 6, 5, 4, 3, 2>>

\* if (digits.length === 13) weights.unshift(6)
CnpjWeights(digits, held) ==
    IF Len(digits) = 13 THEN <<6>> \o NewCnpjWeights(held) ELSE NewCnpjWeights(held)

\* sum % 11
CnpjRemainder(sum) == JsMod(sum, 11)

\* A variant that does not fold the remainders below 2 to 0.
CnpjResultUnfolded(remainder) == JsSub(11, remainder)

\* remainder < 2 ? 0 : 11 - remainder
CnpjResult(remainder) == IF JsLess(remainder, 2) THEN 0 ELSE JsSub(11, remainder)

\* A call whose predecessors left the array `held`.
CnpjCall(digits, held) ==
    CnpjResult(CnpjRemainder(WeightedSum(digits, CnpjWeights(digits, held))))

calculateCnpjVerifier(digits) == CnpjCall(digits, << >>)

----------------------------------------------------------------------------
(* Formatting (lines 50-56 and 72-78).                                     *)

\* Where the first run of n digit characters of s starts; 0 when s has none.
FirstRun(s, n) ==
    LET starts == { p \in 1..(Len(s) - n + 1) :
                      \A k \in 0..(n - 1) : IsDigitChar(s[p + k]) }
    IN  IF starts = {} THEN 0
        ELSE CHOOSE p \in starts : \A q \in starts : p <= q

\* "$1.$2.$3-$4"
CpfTemplate(g1, g2, g3, g4) == g1 \o <<".">> \o g2 \o <<".">> \o g3 \o <<"-">> \o g4

\* fullCpf.replace(/(\d{3})(\d{3})(\d{3})(\d{2})/, "$1.$2.$3-$4"): the first match
\* is replaced, the rest of the string is kept, and a string without a match is
\* returned as it is.
FormatCpf(s) ==
    LET p == FirstRun(s, 11)
    IN  IF p = 0 THEN s
        ELSE SubSeq(s, 1, p - 1)
             \o CpfTemplate(SubSeq(s, p, p + 2), SubSeq(s, p + 3, p + 5),
                            SubSeq(s, p + 6, p + 8), SubSeq(s, p + 9, p + 10))
             \o SubSeq(s, p + 11, Len(s))

\* A variant with the slash of the CNPJ written as a dash.
CnpjTemplateDashed(g1, g2, g3, g4, g5) ==
    g1 \o <<".">> \o g2 \o <<".">> \o g3 \o <<"-">> \o g4 \o <<"-">> \o g5

\* "$1.$2.$3/$4-$5"
CnpjTemplate(g1, g2, g3, g4, g5) ==
    g1 \o <<".">> \o g2 \o <<".">> \o g3 \o <<"/">> \o g4 \o <<"-">> \o g5

\* fullCnpj.replace(/(\d{2})(\d{3})(\d{3})(\d{4})(\d{2})/, "$1.$2.$3/$4-$5")
FormatCnpj(s) ==
    LET p == FirstRun(s, 14)
    IN  IF p = 0 THEN s
        ELSE SubSeq(s, 1, p - 1)
             \o CnpjTemplate(SubSeq(s, p, p + 1), SubSeq(s, p + 2, p + 4),
                             SubSeq(s, p + 5, p + 7), SubSeq(s, p + 8, p + 11),
                             SubSeq(s, p + 12, p + 13))
             \o SubSeq(s, p + 14, Len(s))

----------------------------------------------------------------------------
(* The generate handlers (lines 46-60 and 65-82).                          *)

\* A variant that computes the second verifier from the base alone.
SecondInputBaseOnly(baseDigits, firstVerifier) == baseDigits

\* [...baseDigits, firstVerifier]: the argument of the second verifier call
SecondInput(baseDigits, firstVerifier) == baseDigits \o <<firstVerifier>>

\* [...baseDigits, firstVerifier, secondVerifier].join("") of handleGenerateCpf
FullCpf(baseDigits) ==
    LET firstVerifier  == calculateCpfVerifier(baseDigits)
        secondVerifier == calculateCpfVerifier(SecondInput(baseDigits, firstVerifier))
    IN  Join(baseDigits \o <<firstVerifier, secondVerifier>>)

\* [...baseDigits, firstVerifier, secondVerifier].join("") of handleGenerateCnpj
FullCnpj(baseDigits) ==
    LET firstVerifier  == calculateCnpjVerifier(baseDigits)
        secondVerifier == calculateCnpjVerifier(SecondInput(baseDigits, firstVerifier))
    IN  Join(baseDigits \o <<firstVerifier, secondVerifier>>)

\* handleGenerateCpf, randomDigits(9) having returned baseDigits
handleGenerateCpf(baseDigits) ==
    /\ cpf' = FormatCpf(FullCpf(baseDigits))
    /\ copiedCpf' = FALSE
    /\ event' = [op |-> "generate", kind |-> "cpf", id |-> 0]
    /\ UNCHANGED <<cnpj, copiedCnpj, timers, copies, shown>>

\* handleGenerateCnpj, randomDigits(12) having returned baseDigits
handleGenerateCnpj(baseDigits) ==
    /\ cnpj' = FormatCnpj(FullCnpj(baseDigits))
    /\ copiedCnpj' = FALSE
    /\ event' = [op |-> "generate", kind |-> "cnpj", id |-> 0]
    /\ UNCHANGED <<cpf, copiedCpf, timers, copies, shown>>

----------------------------------------------------------------------------
(* copyToClipboard (lines 88-108) and the callbacks it schedules.          *)

\* document.execCommand("copy") returns true, returns false (the copy was not
\* made), or throws.
CopyOutcomes == {"true", "false", "throws"}

\* Whether the try block goes on past execCommand: its return value is not read
\* (line 96), so only an exception keeps the code from lines 97-103.
Confirms(outcome) == outcome # "throws"

\* copyToClipboard(text, type), the button of `type` passing the value shown
copyToClipboard(type, outcome) ==
    LET text == IF type = "cpf" THEN cpf ELSE cnpj
    IN  IF text = << >>
        THEN UNCHANGED appVars                      \* if (!text) return
        ELSE IF Confirms(outcome)
        THEN /\ copies < MaxCopies
             /\ copies' = copies + 1
             /\ copiedCpf'  = IF type = "cpf"  THEN TRUE ELSE copiedCpf
             /\ copiedCnpj' = IF type = "cnpj" THEN TRUE ELSE copiedCnpj
             /\ timers' = Append(timers, [kind |-> type, id |-> copies + 1,
                                          outcome |-> outcome])
             /\ shown' = [shown EXCEPT ![type] = [id |-> copies + 1,
                                                  outcome |-> outcome]]
             /\ event' = [op |-> "copy", kind |-> type, id |-> copies + 1,
                          outcome |-> outcome]
             /\ UNCHANGED <<cpf, cnpj>>
        ELSE /\ event' = [op |-> "copy", kind |-> type, id |-> 0,
                          outcome |-> outcome]   \* catch: console.error
             /\ UNCHANGED <<cpf, cnpj, copiedCpf, copiedCnpj, timers, copies, shown>>

\* () => setCopiedCpf(false) or () => setCopiedCnpj(false), 2000 ms after the copy
\* that scheduled it: equal delays, so the callbacks run in the order scheduled.
TimerFires ==
    /\ timers # << >>
    /\ LET t == Head(timers)
       IN  /\ copiedCpf'  = IF t.kind = "cpf"  THEN FALSE ELSE copiedCpf
           /\ copiedCnpj' = IF t.kind = "cnpj" THEN FALSE ELSE copiedCnpj
           /\ event' = [op |-> "timer", kind |-> t.kind, id |-> t.id,
                        outcome |-> t.outcome]
    /\ timers' = Tail(timers)
    /\ UNCHANGED <<cpf, cnpj, copies, shown>>

----------------------------------------------------------------------------
(* The application: clicks and timer callbacks in any order.               *)

AppInit ==
    /\ cpf = << >>
    /\ cnpj = << >>
    /\ copiedCpf = FALSE
    /\ copiedCnpj = FALSE
    /\ timers = << >>
    /\ copies = 0
    /\ shown = [cpf  |-> [id |-> 0, outcome |-> "none"],
                cnpj |-> [id |-> 0, outcome |-> "none"]]
    /\ event = [op |-> "mount", kind |-> "none", id |-> 0]

NoInput == [fn |-> "none", digits |-> << >>]

NoCalls ==
    /\ weights = [cpf |-> << >>, cnpj |-> << >>]
    /\ result = << >>
    /\ first = << >>
    /\ between = << >>

Init ==
    /\ AppInit
    /\ input = NoInput
    /\ pc = "idle"
    /\ NoCalls

GenerateCpf ==
    /\ \E baseDigits \in CpfSamples : handleGenerateCpf(baseDigits)
    /\ UNCHANGED calcVars

GenerateCnpj ==
    /\ \E baseDigits \in CnpjSamples : handleGenerateCnpj(baseDigits)
    /\ UNCHANGED calcVars

Copy ==
    /\ \E type \in {"cpf", "cnpj"}, outcome \in CopyOutcomes :
          copyToClipboard(type, outcome)
    /\ UNCHANGED calcVars

Timeout ==
    /\ TimerFires
    /\ UNCHANGED calcVars

Next == GenerateCpf \/ GenerateCnpj \/ Copy \/ Timeout

Spec == Init /\ [][Next]_vars

----------------------------------------------------------------------------
(* Calls of the two calculators, one call at a time.                       *)

\* One call fn(digits): the array it builds and the digit it returns.
Call(fn, digits) ==
    /\ weights' = IF fn = "cpf"
                  THEN [weights EXCEPT !.cpf = CpfWeights(digits)]
                  ELSE [weights EXCEPT !.cnpj = CnpjWeights(digits, weights.cnpj)]
    /\ result' = IF fn = "cpf"
                 THEN <<calculateCpfVerifier(digits)>>
                 ELSE <<CnpjCall(digits, weights.cnpj)>>

\* The staged lengths: 9 or 10 digits for the CPF calculator, 12 or 13 for the
\* CNPJ calculator.
StagedLengths(fn) == IF fn = "cpf" THEN {9, 10} ELSE {12, 13}

\* The first call on the argument under study.
Calculate ==
    /\ pc = "ready"
    /\ Call(input.fn, input.digits)
    /\ first' = result'
    /\ pc' = "called"
    /\ UNCHANGED <<input, between>>
    /\ UNCHANGED appVars

\* The generate handler of the kind of the argument, on a base the random source
\* returned.
GenerateFromInput ==
    /\ pc = "ready"
    /\ \/ /\ input.fn = "cpf"
          /\ Len(input.digits) = 9
          /\ handleGenerateCpf(input.digits)
       \/ /\ input.fn = "cnpj"
          /\ Len(input.digits) = 12
          /\ handleGenerateCnpj(input.digits)
    /\ pc' = "generated"
    /\ UNCHANGED <<input, weights, result, first, between>>

InitInputs ==
    /\ AppInit
    /\ \E fn \in {"cpf", "cnpj"} : \E n \in StagedLengths(fn) :
          \/ \E o \in 0..(n - FreeLen), f \in Digits, win \in [1..FreeLen -> Digits] :
                input = [fn |-> fn, digits |-> Window(n, o, f, win)]
          \/ \E digits \in Samples(n) :
                input = [fn |-> fn, digits |-> digits]
    /\ pc = "ready"
    /\ NoCalls

NextInputs == Calculate \/ GenerateFromInput

SpecInputs == InitInputs /\ [][NextInputs]_vars

----------------------------------------------------------------------------
(* Sequences of calls: a call, other calls, and the first call once more.  *)

SampleInputs ==
    { [fn |-> "cpf",  digits |-> d] : d \in CpfSamples } \cup
    { [fn |-> "cpf",  digits |-> SecondInput(d, calculateCpfVerifier(d))] :
        d \in CpfSamples } \cup
    { [fn |-> "cnpj", digits |-> d] : d \in CnpjSamples } \cup
    { [fn |-> "cnpj", digits |-> SecondInput(d, calculateCnpjVerifier(d))] :
        d \in CnpjSamples }

\* A call on another argument, after the first call and before the repeated one.
CalculateBetween ==
    /\ pc = "called"
    /\ Len(between) < MaxBetween
    /\ \E other \in SampleInputs :
          /\ Call(other.fn, other.digits)
          /\ between' = Append(between, other)
    /\ UNCHANGED <<input, pc, first>>
    /\ UNCHANGED appVars

\* The call on the argument under study, made again.
CalculateAgain ==
    /\ pc = "called"
    /\ Call(input.fn, input.digits)
    /\ pc' = "again"
    /\ UNCHANGED <<input, first, between>>
    /\ UNCHANGED appVars

InitCalls ==
    /\ AppInit
    /\ input \in SampleInputs
    /\ pc = "ready"
    /\ NoCalls

NextCalls == Calculate \/ CalculateBetween \/ CalculateAgain

SpecCalls == InitCalls /\ [][NextCalls]_vars

----------------------------------------------------------------------------
(* What the claims speak of.                                               *)

Punctuation == {".", "-", "/"}

NotPunctuation(c) == c \notin Punctuation

\* A string with its punctuation stripped.
Unpunctuated(s) == SelectSeq(s, NotPunctuation)

AllDigitChars(s) == \A i \in 1..Len(s) : IsDigitChar(s[i])

\* The digits a string of digit characters spells.
ToDigits(s) == [i \in 1..Len(s) |-> CHOOSE d \in Digits : DigitChars[d + 1] = s[i]]

\* The sum of the products of two sequences of equal length.
RECURSIVE Dot(_, _)
Dot(ds, ws) ==
    IF ds = << >> THEN 0 ELSE Head(ds) * Head(ws) + Dot(Tail(ds), Tail(ws))

\* The CPF rule as stated: the digit at 0-based position i of an input of length
\* L weighs L + 1 - i; remainder = (sum * 10) mod 11; 0 if it is 10.
CpfRule(ds) ==
    LET L == Len(ds)
        remainder == (Dot(ds, [p \in 1..L |-> L + 1 - (p - 1)]) * 10) % 11
    IN  IF remainder = 10 THEN 0 ELSE remainder

\* The CNPJ rule as stated, under a given weight table: remainder = sum mod 11;
\* 0 if it is below 2, else 11 - remainder.
CnpjRule(ds, ws) ==
    LET remainder == Dot(ds, ws) % 11
    IN  IF remainder < 2 THEN 0 ELSE 11 - remainder

CnpjTable12 == <<5, 4, 3, 2, 9, 8, 7, 6, 5, 4, 3, 2>>
CnpjTable13 == <<6, 5, 4, 3, 2, 9, 8, 7, 6, 5, 4, 3, 2>>

\* The standard check of a CPF digit: remainder = sum mod 11 under weights that
\* fall from top to 2; 0 if it is below 2, else 11 - remainder.
StandardCpfDigit(ds, top) ==
    LET r == Dot(ds, [p \in 1..Len(ds) |-> top - (p - 1)]) % 11
    IN  IF r < 2 THEN 0 ELSE 11 - r

GeneratedCpf  == pc = "generated" /\ input.fn = "cpf"
GeneratedCnpj == pc = "generated" /\ input.fn = "cnpj"

\* C1: whatever base of 9 digits randomDigits returned, the CPF that
\* handleGenerateCpf stored has, stripped of its punctuation, exactly 11 digits,
\* the 10th being the CPF rule of the first 9 and the 11th the CPF rule of the
\* first 10.
C1_CpfVerifiersFollowRule ==
    GeneratedCpf =>
        LET s == Unpunctuated(cpf)
        IN  /\ Len(s) = 11
            /\ AllDigitChars(s)
            /\ LET d == ToDigits(s)
               IN  /\ d[10] = CpfRule(SubSeq(d, 1, 9))
                   /\ d[11] = CpfRule(SubSeq(d, 1, 10))

C1_Witness ==
    /\ GeneratedCpf
    /\ input.digits = <<1, 1, 1, 4, 4, 4, 4, 7, 7>>
    /\ cpf = <<"1", "1", "1", ".", "4", "4", "4", ".", "4", "7", "7", "-", "4", "7">>

\* C2: whatever base of 12 digits randomDigits returned, the CNPJ that
\* handleGenerateCnpj stored has, stripped of its punctuation, exactly 14 digits,
\* the 13th being the CNPJ rule of the first 12 under [5,4,3,2,9,8,7,6,5,4,3,2]
\* and the 14th the CNPJ rule of the first 13 under [6,5,4,3,2,9,8,7,6,5,4,3,2].
C2_CnpjVerifiersFollowRule ==
    GeneratedCnpj =>
        LET s == Unpunctuated(cnpj)
        IN  /\ Len(s) = 14
            /\ AllDigitChars(s)
            /\ LET d == ToDigits(s)
               IN  /\ d[13] = CnpjRule(SubSeq(d, 1, 12), CnpjTable12)
                   /\ d[14] = CnpjRule(SubSeq(d, 1, 13), CnpjTable13)

C2_Witness ==
    /\ GeneratedCnpj
    /\ input.digits = <<1, 1, 2, 2, 2, 3, 3, 3, 0, 0, 0, 1>>
    /\ cnpj = <<"1", "1", ".", "2", "2", "2", ".", "3", "3", "3", "/",
                "0", "0", "0", "1", "-", "8", "1">>

\* C4: on an argument of a staged length (9 or 10 digits for
\* calculateCpfVerifier, 12 or 13 for calculateCnpjVerifier) the verifier
\* returned is an integer in 0..9: never 10, never 11, never NaN.
C4_VerifierIsADigit ==
    pc = "called" => (Len(result) = 1 /\ result[1] \in 0..9)

\* A call whose remainder is the one that must be folded to 0.
C4_Witness ==
    /\ pc = "called"
    /\ input.fn = "cpf"
    /\ Len(input.digits) = 10
    /\ (Dot(input.digits, weights.cpf) * 10) % 11 = 10
    /\ result = <<0>>

\* C6: on a base of zeros both verifiers are 0: handleGenerateCpf stores
\* "000.000.000-00" and handleGenerateCnpj stores "00.000.000/0000-00".
C6_AllZeroBase ==
    /\ (GeneratedCpf /\ input.digits = <<0, 0, 0, 0, 0, 0, 0, 0, 0>>) =>
          cpf = <<"0", "0", "0", ".", "0", "0", "0", ".", "0", "0", "0", "-", "0", "0">>
    /\ (GeneratedCnpj /\ input.digits = <<0, 0, 0, 0, 0, 0, 0, 0, 0, 0, 0, 0>>) =>
          cnpj = <<"0", "0", ".", "0", "0", "0", ".", "0", "0", "0", "/",
                   "0", "0", "0", "0", "-", "0", "0">>

C6_Witness ==
    /\ GeneratedCnpj
    /\ input.digits = <<0, 0, 0, 0, 0, 0, 0, 0, 0, 0, 0, 0>>
    /\ Len(cnpj) = 18

\* C7, as claimed: in its pass over a 9-digit base calculateCpfVerifier weighs
\* the 0-based position i by 9 - i, the table being [9,8,7,6,5,4,3,2,1].
C7_WeightsNineToOne ==
    (pc = "called" /\ input.fn = "cpf" /\ Len(input.digits) = 9) =>
        weights.cpf = <<9, 8, 7, 6, 5, 4, 3, 2, 1>>

\* C7, amended: in its pass over a 9-digit base calculateCpfVerifier weighs the
\* 0-based position i by 10 - i, the table being [10,9,8,7,6,5,4,3,2].
C7_WeightsTenToTwo ==
    (pc = "called" /\ input.fn = "cpf" /\ Len(input.digits) = 9) =>
        weights.cpf = <<10, 9, 8, 7, 6, 5, 4, 3, 2>>

C7_Witness ==
    /\ pc = "called"
    /\ input = [fn |-> "cpf", digits |-> <<1, 1, 1, 4, 4, 4, 4, 7, 7>>]
    /\ weights.cpf[1] = 10
    /\ result = <<4>>

\* C9: whatever base of 9 digits randomDigits returned, the CPF stored passes
\* the standard check: its 10th digit is the standard digit of the first 9 under
\* weights 10..2, its 11th the standard digit of the first 10 under weights
\* 11..2.
C9_PassesStandardCheck ==
    GeneratedCpf =>
        LET s == Unpunctuated(cpf)
        IN  /\ Len(s) = 11
            /\ AllDigitChars(s)
            /\ LET d == ToDigits(s)
               IN  /\ d[10] = StandardCpfDigit(SubSeq(d, 1, 9), 10)
                   /\ d[11] = StandardCpfDigit(SubSeq(d, 1, 10), 11)

\* A CPF both of whose remainders are the ones folded to 0.
C9_Witness ==
    /\ GeneratedCpf
    /\ input.digits = <<4, 4, 4, 4, 4, 4, 4, 4, 1>>
    /\ cpf = <<"4", "4", "4", ".", "4", "4", "4", ".", "4", "4", "1", "-", "0", "0">>

\* The shape DDD.DDD.DDD-DD.
CpfShaped(s) ==
    /\ Len(s) = 14
    /\ \A i \in 1..14 :
          s[i] = (CASE i \in {4, 8} -> "."
                    [] i = 12       -> "-"
                    [] OTHER        -> IF IsDigitChar(s[i]) THEN s[i] ELSE "D")

\* The shape DD.DDD.DDD/DDDD-DD.
CnpjShaped(s) ==
    /\ Len(s) = 18
    /\ \A i \in 1..18 :
          s[i] = (CASE i \in {3, 7} -> "."
                    [] i = 11       -> "/"
                    [] i = 16       -> "-"
                    [] OTHER        -> IF IsDigitChar(s[i]) THEN s[i] ELSE "D")

\* C3: after any sequence of generate and copy operations the stored cpf is ""
\* or a 14-character string DDD.DDD.DDD-DD, and the stored cnpj is "" or an
\* 18-character string DD.DDD.DDD/DDDD-DD.
C3_StoredShapes ==
    /\ cpf = << >> \/ CpfShaped(cpf)
    /\ cnpj = << >> \/ CnpjShaped(cnpj)

C3_Witness ==
    /\ CpfShaped(cpf)
    /\ CnpjShaped(cnpj)
    /\ copies >= 2
    /\ event.op = "generate"

\* C5: a call made again on the same argument returns the digit it returned the
\* first time, whatever calls came in between; and the weight 6 prepended for a
\* 13-digit argument is not there in a later call on a 12-digit argument.
C5_SameArgumentSameDigit ==
    pc = "again" =>
        /\ result = first
        /\ (input.fn = "cnpj" /\ Len(input.digits) = 12) =>
              (Len(weights.cnpj) = 12 /\ weights.cnpj[1] = 5)

\* A 12-digit call repeated after a 13-digit call.
C5_Witness ==
    /\ pc = "again"
    /\ input.fn = "cnpj"
    /\ Len(input.digits) = 12
    /\ \E i \in 1..Len(between) :
          between[i].fn = "cnpj" /\ Len(between[i].digits) = 13
    /\ result = first

\* C8: a copy whose execCommand reports failure (returns false, or throws) does
\* not set the copied flag of its kind, and leaves cpf and cnpj as they were.
C8_FailedCopyDoesNotConfirm ==
    [][(event'.op = "copy" /\ event'.outcome # "true" /\ event' # event) =>
          /\ cpf' = cpf
          /\ cnpj' = cnpj
          /\ (event'.kind = "cpf" /\ copiedCpf') => copiedCpf
          /\ (event'.kind = "cnpj" /\ copiedCnpj') => copiedCnpj]_vars

\* C10: a copied flag that a successful copy set stays set until a document of
\* its kind is generated or the timer of that same copy runs (2 seconds after
\* it): the timer of an earlier successful copy does not clear it.
C10_ConfirmationLastsItsTwoSeconds ==
    [][/\ (copiedCpf /\ ~copiedCpf' /\ shown.cpf.outcome = "true") =>
            \/ event'.op = "generate" /\ event'.kind = "cpf"
            \/ /\ event'.op = "timer"
               /\ event'.kind = "cpf"
               /\ event'.outcome = "true" => event'.id = shown.cpf.id
       /\ (copiedCnpj /\ ~copiedCnpj' /\ shown.cnpj.outcome = "true") =>
            \/ event'.op = "generate" /\ event'.kind = "cnpj"
            \/ /\ event'.op = "timer"
               /\ event'.kind = "cnpj"
               /\ event'.outcome = "true" => event'.id = shown.cnpj.id]_vars

====
